---------------------------- MODULE Spec2Model ----------------------------
(***************************************************************************)
(* A model of bdm_scraper.py: the text helpers (clean_text, _get_img_url,  *)
(* parse_french_date), the field cascade of scrape_article, and the        *)
(* MongoDB persistence and query functions.                                *)
(*                                                                         *)
(* A Python str is a sequence of code points (97 is "a", 32 is " ").       *)
(* Python's None is the value None below, which no string equals.          *)
(***************************************************************************)
EXTENDS Integers, Sequences, FiniteSets, TLC

VARIABLES
    pc,      \* position of the call being modelled: "call" or "done" of one
             \* call, "serve" or "answered" of a caller that calls again
    arg,     \* the argument of the function under call
    ret,     \* what the call returned (or the exception it raised)
    store,   \* the documents of articles_col, in insertion order
    calls,   \* how many times articles_col was called
    hist     \* history: the dicts of the acknowledged upserts, in order

vars == <<pc, arg, ret, store, calls, hist>>

storeVars == <<store, calls, hist>>

\* a collection no call has touched
StoreIdle == store = <<>> /\ calls = 0 /\ hist = <<>>

---------------------------------------------------------------------------
(* Python values *)

None == << -1 >>

\* the exception an out-of-range list index raises
IndexError == << -2 >>

\* Python truthiness of an optional str: None and "" are falsy
Truthy(x) == x # None /\ x # <<>>

Range(s) == {s[i] : i \in 1..Len(s)}

RECURSIVE SeqsUpTo(_, _)
\* all sequences over S of length at most n
SeqsUpTo(S, n) ==
    IF n = 0 THEN {<<>>}
    ELSE LET shorter == SeqsUpTo(S, n - 1)
         IN  shorter \cup {Append(s, c) : s \in {t \in shorter : Len(t) = n - 1}, c \in S}

\* str.isspace / the regex class \s on a str pattern
IsSpace(c) ==
    \/ c \in 9..13
    \/ c \in 28..32
    \/ c \in {133, 160, 5760, 8232, 8233, 8239, 8287, 12288}
    \/ c \in 8192..8202

RECURSIVE LStrip(_)
LStrip(s) == IF s # <<>> /\ IsSpace(Head(s)) THEN LStrip(Tail(s)) ELSE s

RECURSIVE RStrip(_)
RStrip(s) ==
    IF s # <<>> /\ IsSpace(s[Len(s)]) THEN RStrip(SubSeq(s, 1, Len(s) - 1)) ELSE s

\* str.strip()
Strip(s) == RStrip(LStrip(s))

---------------------------------------------------------------------------
(* clean_text *)

RECURSIVE CollapseWs(_)
\* re.sub(r'\s+', ' ', s): every maximal run of \s becomes one space
CollapseWs(s) ==
    IF s = <<>> THEN <<>>
    ELSE IF IsSpace(Head(s))
         THEN <<32>> \o CollapseWs(LStrip(s))
         ELSE <<Head(s)>> \o CollapseWs(Tail(s))

\* the class [\u00A0\u2000-\u200B\u2028\u2029]
IsSpecialChar(c) == c = 160 \/ c \in 8192..8203 \/ c \in {8232, 8233}

\* re.sub(r'[\u00A0\u2000-\u200B\u2028\u2029]', ' ', s): each such character
\* becomes one space, one by one
ReplaceSpecial(s) == [i \in 1..Len(s) |-> IF IsSpecialChar(s[i]) THEN 32 ELSE s[i]]

clean_text(text) ==
    IF ~Truthy(text) THEN <<>>
    ELSE Strip(ReplaceSpecial(CollapseWs(Strip(text))))

\* the longest text clean_text is called with
MaxTextLen == 4

\* "a", "b", space, no-break space, zero-width space U+200B, line separator
TextAlphabet == {97, 98, 32, 160, 8203, 8232}

TextInputs == {None} \cup SeqsUpTo(TextAlphabet, MaxTextLen)

InitCleanText == StoreIdle /\ pc = "call" /\ arg \in TextInputs /\ ret = None

CallCleanText ==
    /\ pc = "call"
    /\ ret' = clean_text(arg)
    /\ pc' = "done"
    /\ UNCHANGED <<arg, storeVars>>

SpecCleanText == InitCleanText /\ [][CallCleanText]_vars

HasDoubleSpace(s) == \E i \in 1..(Len(s) - 1) : s[i] = 32 /\ s[i + 1] = 32

\* C8: the output of clean_text has no leading or trailing space, no two
\* consecutive spaces and none of the special characters, clean_text leaves
\* it unchanged, and an empty or absent input gives the empty string.
C8_CleanTextNormalForm ==
    pc = "done" =>
        /\ ret = <<>> \/ (ret[1] # 32 /\ ret[Len(ret)] # 32)
        /\ ~HasDoubleSpace(ret)
        /\ \A i \in 1..Len(ret) : ~IsSpecialChar(ret[i])
        /\ clean_text(ret) = ret
        /\ (~Truthy(arg) => ret = <<>>)

---------------------------------------------------------------------------
(* _get_img_url *)

\* an absent element (soup.find found nothing)
NoTag == [name |-> "none"]

\* Tag.get(attr): the attribute's value, or None when the tag has none
Get(tag, attr) == IF attr \in DOMAIN tag.attrs THEN tag.attrs[attr] ELSE None

Contains(s, c) == \E i \in 1..Len(s) : s[i] = c

\* s.split(",")[0]: what precedes the first comma
BeforeFirstComma(s) ==
    IF Contains(s, 44)
    THEN SubSeq(s, 1, (CHOOSE i \in 1..Len(s) : s[i] = 44 /\ \A j \in 1..(i - 1) : s[j] # 44) - 1)
    ELSE s

RECURSIVE TakeToken(_)
\* the leading run of non-whitespace characters
TakeToken(s) ==
    IF s = <<>> \/ IsSpace(Head(s)) THEN <<>> ELSE <<Head(s)>> \o TakeToken(Tail(s))

\* s.split()[0]: the first whitespace-separated token; s.split() is the
\* empty list when s is empty or all whitespace, and [0] then raises
FirstToken(s) == IF LStrip(s) = <<>> THEN IndexError ELSE TakeToken(LStrip(s))

\* the base up to and including its last "/"
DirOf(base) ==
    IF Contains(base, 47)
    THEN SubSeq(base, 1, CHOOSE i \in 1..Len(base) : base[i] = 47 /\ \A j \in (i + 1)..Len(base) : base[j] # 47)
    ELSE <<>>

\* urllib.parse.urljoin for the references the model builds: an empty
\* reference gives the base, a relative path replaces the base's last segment
urljoin(base, ref) == IF ref = <<>> THEN base ELSE DirOf(base) \o ref

ImgAttrOrder == <<"data-src", "data-lazy-src", "data-original", "src", "data-srcset">>

\* the URL the loop returns for the first attribute with a truthy value
ImgUrlFrom(attr, url, base_url) ==
    IF attr = "data-srcset" \/ Contains(url, 44)
    THEN LET tok == FirstToken(BeforeFirstComma(url))
         IN  IF tok = IndexError THEN IndexError ELSE urljoin(base_url, Strip(tok))
    ELSE urljoin(base_url, Strip(url))

\* a string, None, or IndexError when the call raises
get_img_url(img_tag, base_url) ==
    IF img_tag = NoTag THEN None
    ELSE LET hits == {i \in 1..Len(ImgAttrOrder) : Truthy(Get(img_tag, ImgAttrOrder[i]))}
         IN  IF hits = {} THEN None
             ELSE LET i == CHOOSE k \in hits : \A j \in hits : k <= j
                  IN  ImgUrlFrom(ImgAttrOrder[i], Get(img_tag, ImgAttrOrder[i]), base_url)

\* "h://b/p", the URL of the page
BaseUrl == <<104, 58, 47, 47, 98, 47, 112>>

\* how many of the five attributes an image carries, and how long a value is
MaxAttrs == 2
MaxAttrLen == 2

\* "a", space, comma
AttrAlphabet == {97, 32, 44}

\* the values of at most len characters
AttrValues(len) == SeqsUpTo(AttrAlphabet, len)

\* the img tags of at most n attributes, each of at most len characters
ImgTags(n, len) ==
    UNION {{[name |-> "img", attrs |-> f] : f \in [S -> AttrValues(len)]} :
              S \in {T \in SUBSET Range(ImgAttrOrder) : Cardinality(T) <= n}}

InitGetImgUrl == StoreIdle /\ pc = "call" /\ arg \in ImgTags(MaxAttrs, MaxAttrLen) \cup {NoTag} /\ ret = None

CallGetImgUrl ==
    /\ pc = "call"
    /\ ret' = get_img_url(arg, BaseUrl)
    /\ pc' = "done"
    /\ UNCHANGED <<arg, storeVars>>

SpecGetImgUrl == InitGetImgUrl /\ [][CallGetImgUrl]_vars

\* an absolute URL: a scheme, "://", and more
IsAbsoluteUrl(u) == \E i \in 2..(Len(u) - 2) : u[i] = 58 /\ u[i + 1] = 47 /\ u[i + 2] = 47

\* C6: _get_img_url returns an absolute URL or None for every image element
\* and never raises, also when the first non-empty attribute value is only
\* whitespace, only commas, or a list whose first candidate is empty.
C6_GetImgUrlNeverRaises ==
    pc = "done" /\ arg \in ImgTags(MaxAttrs, MaxAttrLen) \cup {NoTag} =>
        /\ ret # IndexError
        /\ ret = None \/ IsAbsoluteUrl(ret)

---------------------------------------------------------------------------
(* parse_french_date *)

IsDigit(c) == c \in 48..57

\* str.lower() on the Latin letters the model uses
LowerChar(c) ==
    IF c \in 65..90 \/ c \in 192..214 \/ c \in 216..222 THEN c + 32 ELSE c

Lower(s) == [i \in 1..Len(s) |-> LowerChar(s[i])]

\* month name (lowercase) and its number
FRENCH_MONTHS == {
    <<<<106, 97, 110, 118, 105, 101, 114>>, <<48, 49>>>>,            \* janvier
    <<<<102, 233, 118, 114, 105, 101, 114>>, <<48, 50>>>>,           \* f\xe9vrier
    <<<<102, 101, 118, 114, 105, 101, 114>>, <<48, 50>>>>,           \* fevrier
    <<<<109, 97, 114, 115>>, <<48, 51>>>>,                           \* mars
    <<<<97, 118, 114, 105, 108>>, <<48, 52>>>>,                      \* avril
    <<<<109, 97, 105>>, <<48, 53>>>>,                                \* mai
    <<<<106, 117, 105, 110>>, <<48, 54>>>>,                          \* juin
    <<<<106, 117, 105, 108, 108, 101, 116>>, <<48, 55>>>>,           \* juillet
    <<<<97, 111, 251, 116>>, <<48, 56>>>>,                           \* ao\xfbt
    <<<<97, 111, 117, 116>>, <<48, 56>>>>,                           \* aout
    <<<<115, 101, 112, 116, 101, 109, 98, 114, 101>>, <<48, 57>>>>,  \* septembre
    <<<<111, 99, 116, 111, 98, 114, 101>>, <<49, 48>>>>,             \* octobre
    <<<<110, 111, 118, 101, 109, 98, 114, 101>>, <<49, 49>>>>,       \* novembre
    <<<<100, 233, 99, 101, 109, 98, 114, 101>>, <<49, 50>>>>,        \* d\xe9cembre
    <<<<100, 101, 99, 101, 109, 98, 114, 101>>, <<49, 50>>>>         \* decembre
}

\* FRENCH_MONTHS.get(name): the month number, or None
MonthGet(name) ==
    IF \E e \in FRENCH_MONTHS : e[1] = name
    THEN (CHOOSE e \in FRENCH_MONTHS : e[1] = name)[2]
    ELSE None

RECURSIVE ToInt(_)
\* int() of a string of decimal digits
ToInt(digits) ==
    IF digits = <<>> THEN 0
    ELSE 10 * ToInt(SubSeq(digits, 1, Len(digits) - 1)) + (digits[Len(digits)] - 48)

RECURSIVE Decimal(_)
\* the decimal digits of a natural number
Decimal(n) == IF n < 10 THEN <<48 + n>> ELSE Decimal(n \div 10) \o <<48 + (n % 10)>>

RECURSIVE ZeroPad(_, _)
ZeroPad(s, width) == IF Len(s) >= width THEN s ELSE ZeroPad(<<48>> \o s, width)

\* f"{n:0<width>d}"
Fmt(n, width) == ZeroPad(Decimal(n), width)

\* the end (exclusive) of the maximal run of whitespace starting at i
SpaceRunEnd(s, i) ==
    CHOOSE j \in i..(Len(s) + 1) :
        /\ j = Len(s) + 1 \/ ~IsSpace(s[j])
        /\ \A k \in i..(j - 1) : IsSpace(s[k])

\* [^\s,]
IsTokenChar(c) == ~IsSpace(c) /\ c # 44

\* the end (exclusive) of the maximal run of [^\s,] starting at i
TokenRunEnd(s, i) ==
    CHOOSE j \in i..(Len(s) + 1) :
        /\ j = Len(s) + 1 \/ ~IsTokenChar(s[j])
        /\ \A k \in i..(j - 1) : IsTokenChar(s[k])

AllDigits(s, from, to) == to <= Len(s) /\ \A k \in from..to : IsDigit(s[k])

\* the match of (\d{1,2})\s+([^\s,]+)\s+(\d{4}) that starts at i, if any.
\* Each quantifier is greedy and none can give characters back to the next
\* (the classes that follow one another are disjoint), but \d{1,2}, which
\* takes two digits when whitespace follows them and one otherwise.
DmyMatchAt(s, i) ==
    LET dlen == IF AllDigits(s, i, i + 1) /\ i + 2 <= Len(s) /\ IsSpace(s[i + 2]) THEN 2
                ELSE IF AllDigits(s, i, i) /\ i + 1 <= Len(s) /\ IsSpace(s[i + 1]) THEN 1
                ELSE 0
        t0 == SpaceRunEnd(s, i + dlen)
        t1 == TokenRunEnd(s, t0)
        y0 == SpaceRunEnd(s, t1)
    IN  IF dlen > 0 /\ t1 > t0 /\ y0 > t1 /\ AllDigits(s, y0, y0 + 3)
        THEN [ok |-> TRUE, day |-> SubSeq(s, i, i + dlen - 1),
              token |-> SubSeq(s, t0, t1 - 1), year |-> SubSeq(s, y0, y0 + 3)]
        ELSE [ok |-> FALSE]

\* re.search: the match at the leftmost position that has one
DmySearch(s) ==
    LET at == {i \in 1..Len(s) : DmyMatchAt(s, i).ok}
    IN  IF at = {} THEN [ok |-> FALSE]
        ELSE DmyMatchAt(s, CHOOSE i \in at : \A j \in at : i <= j)

\* (\d{4})-(\d{2})-(\d{2}) at i
IsoMatchAt(s, i) ==
    /\ AllDigits(s, i, i + 3)
    /\ i + 9 <= Len(s)
    /\ s[i + 4] = 45 /\ AllDigits(s, i + 5, i + 6)
    /\ s[i + 7] = 45 /\ AllDigits(s, i + 8, i + 9)

IsoSearch(s) ==
    LET at == {i \in 1..Len(s) : IsoMatchAt(s, i)}
    IN  IF at = {} THEN [ok |-> FALSE]
        ELSE LET i == CHOOSE k \in at : \A j \in at : k <= j
             IN  [ok |-> TRUE, y |-> SubSeq(s, i, i + 3), m |-> SubSeq(s, i + 5, i + 6),
                  d |-> SubSeq(s, i + 8, i + 9)]

\* the numbers written in the text as a maximal run of three or four digits
YearsWritten(text) ==
    {ToInt(SubSeq(text, i, j)) : <<i, j>> \in
        {r \in (1..Len(text)) \X (1..Len(text)) :
            /\ r[2] - r[1] \in {2, 3}
            /\ AllDigits(text, r[1], r[2])
            /\ r[1] = 1 \/ ~IsDigit(text[r[1] - 1])
            /\ r[2] = Len(text) \/ ~IsDigit(text[r[2] + 1])}}

\* what dateutil_parser.parse(text, dayfirst=True, fuzzy=True) may do: raise,
\* or return a datetime. The library is not part of the program: the model
\* lets it raise or return a date whose year is one the text writes with
\* three or four digits ("0999" parses to the year 999) or the year of the
\* default date, and whose month and day are any of a few.
DateutilYears(text) == {2025} \cup (YearsWritten(text) \ {0})
DateutilMonths == {1, 8}
DateutilDays == {5, 28}

DateutilOutcomes(text) ==
    {[ok |-> FALSE]} \cup
    IF text = <<>> THEN {}
    ELSE {[ok |-> TRUE, year |-> y, month |-> m, day |-> d] :
              y \in DateutilYears(text), m \in DateutilMonths, d \in DateutilDays}

\* dt.strftime("%Y%m%d"): %m and %d are two digits; %Y is the C library's,
\* which pads a year below 1000 to four digits on some platforms and not
\* on others (glibc)
Strftime(dt, padYear) ==
    (IF padYear THEN Fmt(dt.year, 4) ELSE Decimal(dt.year)) \o Fmt(dt.month, 2) \o Fmt(dt.day, 2)

\* the tiers with the ISO fragment tried before the spelled date
ParseTiersIsoFirst(text, du, padYear) ==
    LET m == DmySearch(text)
        month == IF m.ok THEN MonthGet(Lower(m.token)) ELSE None
        iso == IsoSearch(text)
    IN  IF iso.ok
        THEN [value |-> iso.y \o iso.m \o iso.d, tier |-> 2]
        ELSE IF m.ok /\ Truthy(month)
        THEN [value |-> Fmt(ToInt(m.year), 4) \o month \o Fmt(ToInt(m.day), 2), tier |-> 1]
        ELSE IF du.ok
        THEN [value |-> Strftime(du, padYear), tier |-> 3]
        ELSE [value |-> None, tier |-> 3]

\* the tiers after the text is stripped
ParseTiers(text, du, padYear) ==
    LET m == DmySearch(text)
        month == IF m.ok THEN MonthGet(Lower(m.token)) ELSE None
        iso == IsoSearch(text)
    IN  IF m.ok /\ Truthy(month)
        THEN [value |-> Fmt(ToInt(m.year), 4) \o month \o Fmt(ToInt(m.day), 2), tier |-> 1]
        ELSE IF iso.ok
        THEN [value |-> iso.y \o iso.m \o iso.d, tier |-> 2]
        ELSE IF du.ok
        THEN [value |-> Strftime(du, padYear), tier |-> 3]
        ELSE [value |-> None, tier |-> 3]

\* du is what the fallback parser does if it is reached, padYear the
\* platform's %Y
parse_french_date(text, du, padYear) ==
    IF ~Truthy(text) THEN [value |-> None, tier |-> 0]
    ELSE ParseTiers(Strip(text), du, padYear)

\* the pieces a date text is made of: "28", "5", " ", ",", " AOUT " with a
\* circumflex on the U, " foo ", "2025", "0999", "2025-08-28"
DatePieces == {
    <<50, 56>>, <<53>>, <<32>>, <<44>>, <<32, 65, 79, 219, 84, 32>>,
    <<32, 102, 111, 111, 32>>, <<50, 48, 50, 53>>, <<48, 57, 57, 57>>,
    <<50, 48, 50, 53, 45, 48, 56, 45, 50, 56>>
}

\* how many pieces a date text has
MaxPieces == 3

RECURSIVE Flatten(_)
Flatten(ss) == IF ss = <<>> THEN <<>> ELSE Head(ss) \o Flatten(Tail(ss))

DateTexts == {None} \cup {Flatten(ps) : ps \in SeqsUpTo(DatePieces, MaxPieces)}

InitParseDate == StoreIdle /\ pc = "call" /\ arg \in DateTexts /\ ret = None

CallParseDate ==
    /\ pc = "call"
    /\ \E du \in DateutilOutcomes(IF arg = None THEN <<>> ELSE Strip(arg)), padYear \in BOOLEAN :
           ret' = parse_french_date(arg, du, padYear)
    /\ pc' = "done"
    /\ UNCHANGED <<arg, storeVars>>

SpecParseDate == InitParseDate /\ [][CallParseDate]_vars

\* C5: parse_french_date returns None or a string of exactly 8 decimal
\* digits, whatever the text and whichever tier resolved it.
C5_DateIsEightDigits ==
    pc = "done" /\ arg \in DateTexts =>
        \/ ret.value = None
        \/ Len(ret.value) = 8 /\ \A i \in 1..8 : IsDigit(ret.value[i])

\* C7: the tiers are tried in order and the first success wins: a first
\* day/month-token/year match whose token is a French month gives year, month
\* number and zero-padded day; otherwise a YYYY-MM-DD fragment gives its
\* digits, whatever day and year tier 1 matched; only otherwise is the
\* fallback parser used.
C7_TiersInOrder ==
    pc = "done" /\ arg \in DateTexts /\ Truthy(arg) =>
        LET text == Strip(arg)
            m == DmySearch(text)
            hit == m.ok /\ \E e \in FRENCH_MONTHS : e[1] = Lower(m.token)
            iso == IsoSearch(text)
        IN  /\ hit =>
                /\ ret.tier = 1
                /\ \E e \in FRENCH_MONTHS :
                       /\ e[1] = Lower(m.token)
                       /\ ret.value = ZeroPad(m.year, 4) \o e[2] \o ZeroPad(Decimal(ToInt(m.day)), 2)
            /\ ~hit /\ iso.ok => ret.tier = 2 /\ ret.value = iso.y \o iso.m \o iso.d
            /\ ~hit /\ ~iso.ok <=> ret.tier = 3

\* a text whose first day/token/year match names no French month and which
\* holds an ISO fragment was resolved by tier 2
C7_Witness ==
    /\ pc = "done" /\ arg \in DateTexts /\ Truthy(arg)
    /\ DmySearch(Strip(arg)).ok
    /\ MonthGet(Lower(DmySearch(Strip(arg)).token)) = None
    /\ ret.tier = 2
    /\ ret.value = <<50, 48, 50, 53, 48, 56, 50, 56>>

---------------------------------------------------------------------------
(* The articles collection and save_article_to_mongo *)

\* A dict is a function from its keys to their values. The argument None
\* is the value NoneDict, a dict no caller builds.
NoneDict == [k \in {"None"} |-> <<>>]

\* all dicts whose keys are among DOMAIN vals, the value of key k in vals[k]
DictsOver(vals) ==
    UNION {{f \in [S -> UNION {vals[k] : k \in DOMAIN vals}] : \A k \in S : f[k] \in vals[k]} :
              S \in SUBSET DOMAIN vals}

\* {**old, **new}: the keys of both, the values of new where it has the key
Merged(old, new) ==
    [k \in DOMAIN old \cup DOMAIN new |-> IF k \in DOMAIN new THEN new[k] ELSE old[k]]

\* the documents an equality filter {"url": url} matches, by position
MatchingUrl(coll, url) == {i \in 1..Len(coll) : "url" \in DOMAIN coll[i] /\ coll[i]["url"] = url}

\* update_one that inserts a new document whether or not one matches
InsertAlways(coll, url, fields) ==
    Append(coll, Merged(("_id" :> <<Len(coll) + 1>>) @@ ("url" :> url), fields))

\* articles_col.update_one({"url": url}, {"$set": fields}, upsert=True):
\* $set writes the given fields into the first matching document and leaves
\* its other fields; without a match a document made of the filter's
\* equality and the given fields is inserted, with a fresh _id
UpdateOneUpsert(coll, url, fields) ==
    LET hits == MatchingUrl(coll, url)
    IN  IF hits # {}
        THEN LET i == CHOOSE k \in hits : \A j \in hits : k <= j
             IN  [coll EXCEPT ![i] = Merged(coll[i], fields)]
        ELSE Append(coll, Merged(("_id" :> <<Len(coll) + 1>>) @@ ("url" :> url), fields))

\* the guard of save_article_to_mongo with its last test left out
UrlKeyMissing(article_dict) ==
    \/ article_dict = NoneDict
    \/ DOMAIN article_dict = {}
    \/ "url" \notin DOMAIN article_dict

\* not article_dict or "url" not in article_dict or not article_dict["url"]
NoValidUrl(article_dict) ==
    \/ article_dict = NoneDict
    \/ DOMAIN article_dict = {}
    \/ "url" \notin DOMAIN article_dict
    \/ ~Truthy(article_dict["url"])

\* The call's outcome: what it returns or raises, the collection after it,
\* and whether it called the collection. storeUp: the store answers.
save_article_to_mongo(coll, article_dict, storeUp) ==
    IF NoValidUrl(article_dict)
    THEN [out |-> "ValueError", coll |-> coll, called |-> 0]
    ELSE IF storeUp
    THEN [out |-> "ack", coll |-> UpdateOneUpsert(coll, article_dict["url"], article_dict),
          called |-> 1]
    ELSE [out |-> "StoreError", coll |-> coll, called |-> 1]

\* how many times a run calls the collection
MaxStoreCalls == 3

\* urls "u" and "v", titles "a" and "b", category "c"
SaveDocs ==
    {NoneDict} \cup
    DictsOver([url |-> {None, <<>>, <<117>>, <<118>>},
               title |-> {<<97>>, <<98>>},
               category |-> {<<99>>}])

InitSave ==
    /\ StoreIdle
    /\ pc = "serve"
    /\ arg = NoneDict
    /\ ret = [op |-> "none"]

\* the caller has taken what the call returned
Resume ==
    /\ pc = "answered"
    /\ pc' = "serve"
    /\ arg' = NoneDict
    /\ ret' = [op |-> "none"]
    /\ UNCHANGED storeVars

\* one call of save_article_to_mongo(d)
SaveArticle(d, storeUp) ==
    LET r == save_article_to_mongo(store, d, storeUp)
    IN  /\ pc = "serve"
        /\ calls + r.called <= MaxStoreCalls
        /\ store' = r.coll
        /\ calls' = calls + r.called
        /\ arg' = d
        /\ ret' = [op |-> "save", out |-> r.out]
        /\ pc' = "answered"

Save ==
    \E d \in SaveDocs, storeUp \in BOOLEAN :
        /\ SaveArticle(d, storeUp)
        /\ hist' = IF ret'.out = "ack" THEN Append(hist, d) ELSE hist

NextSave == Save \/ Resume

SpecSave == InitSave /\ [][NextSave]_vars

\* a document without the _id the store gave it
Fields(doc) == [k \in DOMAIN doc \ {"_id"} |-> doc[k]]

\* the positions in hist of the upserts for url
UpsertsOf(url) == {i \in 1..Len(hist) : hist[i]["url"] = url}

\* the last of a non-empty set of positions
Last(S) == CHOOSE i \in S : \A j \in S : j <= i

UrlsSaved == {hist[i]["url"] : i \in 1..Len(hist)}

OneRecordPerUrl ==
    /\ \A u \in UrlsSaved : Cardinality(MatchingUrl(store, u)) = 1
    /\ \A i \in 1..Len(store) : "url" \in DOMAIN store[i] /\ store[i]["url"] \in UrlsSaved

\* C1 as stated: one record per url, holding exactly the fields and values
\* of the most recent upsert for that url.
C1_RecordIsLastUpsert ==
    /\ OneRecordPerUrl
    /\ \A u \in UrlsSaved :
           \A i \in MatchingUrl(store, u) : Fields(store[i]) = hist[Last(UpsertsOf(u))]

\* C1, amended: one record per url; each field of the record has the value of
\* the most recent upsert for that url that gave the field, and the record
\* has no field that none of them gave.
C1_RecordIsLatestPerField ==
    /\ OneRecordPerUrl
    /\ \A u \in UrlsSaved :
           \A i \in MatchingUrl(store, u) :
               /\ DOMAIN Fields(store[i]) = UNION {DOMAIN hist[j] : j \in UpsertsOf(u)}
               /\ \A k \in DOMAIN Fields(store[i]) :
                      store[i][k] = hist[Last({j \in UpsertsOf(u) : k \in DOMAIN hist[j]})][k]

\* a url was upserted twice with different values and a field only the
\* first upsert gave
C1_Witness ==
    \E u \in UrlsSaved :
        /\ Cardinality(UpsertsOf(u)) >= 2
        /\ \E i \in UpsertsOf(u) :
               /\ i < Last(UpsertsOf(u))
               /\ hist[i] # hist[Last(UpsertsOf(u))]
               /\ DOMAIN hist[i] \ DOMAIN hist[Last(UpsertsOf(u))] # {}
        /\ Len(store) = Cardinality(UrlsSaved)

\* C2: a save without a usable url (no record, no url key, or an empty url)
\* raises the validation error, calls the collection not at all and leaves
\* it as it was.
C2_InvalidSaveTouchesNothing ==
    [][(/\ ret'.op = "save"
        /\ pc' = "answered"
        /\ arg' = NoneDict \/ "url" \notin DOMAIN arg' \/ arg'["url"] \in {None, <<>>})
          => ret'.out = "ValueError" /\ store' = store /\ calls' = calls]_vars

\* a save with an empty url was refused while the collection held a record
C2_Witness ==
    /\ ret.op = "save" /\ ret.out = "ValueError"
    /\ arg # NoneDict /\ "url" \in DOMAIN arg /\ arg["url"] = <<>>
    /\ store # <<>> /\ calls > 0

---------------------------------------------------------------------------
(* Regular expressions as MongoDB's $regex evaluates them (PCRE) *)

\* the characters re.escape puts a backslash before:
\* ()[]{}?*+-|^$\.&~# and space, \t, \n, \r, \v, \f
ReSpecial == {40, 41, 91, 93, 123, 125, 63, 42, 43, 45, 124, 94, 36, 92, 46, 38, 126, 35,
              32, 9, 10, 13, 11, 12}

RECURSIVE re_escape(_)
re_escape(s) ==
    IF s = <<>> THEN <<>>
    ELSE (IF Head(s) \in ReSpecial THEN <<92, Head(s)>> ELSE <<Head(s)>>) \o re_escape(Tail(s))

RECURSIVE Atoms(_)
\* the pattern as a sequence of atoms: a backslash makes the next character
\* a literal; a bare ^ is the start, a bare $ the end, a bare . any character
Atoms(p) ==
    IF p = <<>> THEN <<>>
    ELSE IF Head(p) = 92 /\ Len(p) >= 2
         THEN <<[kind |-> "lit", c |-> p[2]]>> \o Atoms(SubSeq(p, 3, Len(p)))
    ELSE IF Head(p) = 94 THEN <<[kind |-> "bol", c |-> 0]>> \o Atoms(Tail(p))
    ELSE IF Head(p) = 36 THEN <<[kind |-> "eol", c |-> 0]>> \o Atoms(Tail(p))
    ELSE IF Head(p) = 46 THEN <<[kind |-> "any", c |-> 0]>> \o Atoms(Tail(p))
    ELSE <<[kind |-> "lit", c |-> Head(p)]>> \o Atoms(Tail(p))

RECURSIVE MatchFrom(_, _, _)
\* the atoms match s from position i on, letters compared without case.
\* Without the multiline option ^ is the start of the subject, and $ its end
\* or the place before a line feed that ends it; . is any character but a
\* line feed.
MatchFrom(atoms, s, i) ==
    IF atoms = <<>> THEN TRUE
    ELSE LET a == Head(atoms)
         IN  CASE a.kind = "bol" -> i = 1 /\ MatchFrom(Tail(atoms), s, i)
               [] a.kind = "eol" ->
                    /\ i = Len(s) + 1 \/ (i = Len(s) /\ s[i] = 10)
                    /\ MatchFrom(Tail(atoms), s, i)
               [] a.kind = "any" ->
                    i <= Len(s) /\ s[i] # 10 /\ MatchFrom(Tail(atoms), s, i + 1)
               [] OTHER ->
                    /\ i <= Len(s) /\ LowerChar(s[i]) = LowerChar(a.c)
                    /\ MatchFrom(Tail(atoms), s, i + 1)

\* {"$regex": pattern, "$options": "i"} against a string: a match anywhere
RegexSearch(pattern, s) == \E i \in 1..(Len(s) + 1) : MatchFrom(Atoms(pattern), s, i)

---------------------------------------------------------------------------
(* find: the filter documents and their evaluation *)

RECURSIVE LexLeq(_, _)
\* a <= b as strings, compared code point by code point
LexLeq(a, b) ==
    IF a = <<>> THEN TRUE
    ELSE IF b = <<>> THEN FALSE
    ELSE IF Head(a) # Head(b) THEN Head(a) < Head(b)
    ELSE LexLeq(Tail(a), Tail(b))

\* one field's condition: a $regex, or a range of $gte and $lte. A document
\* without the field meets neither kind.
FieldMeets(doc, field, cond) ==
    /\ field \in DOMAIN doc
    /\ IF "$regex" \in DOMAIN cond
       THEN RegexSearch(cond["$regex"], doc[field])
       ELSE /\ "$gte" \in DOMAIN cond => LexLeq(cond["$gte"], doc[field])
            /\ "$lte" \in DOMAIN cond => LexLeq(doc[field], cond["$lte"])

RECURSIVE Matches(_, _)
\* the document meets every key of the filter: $or and $and over their
\* lists, any other key a field's condition. The empty filter matches all.
Matches(doc, query) ==
    \A k \in DOMAIN query :
        CASE k = "$or" -> \E i \in 1..Len(query[k]) : Matches(doc, query[k][i])
          [] k = "$and" -> \A i \in 1..Len(query[k]) : Matches(doc, query[k][i])
          [] OTHER -> FieldMeets(doc, k, query[k])

\* the sort key of a document: a missing field sorts below every string
SortKey(doc, field) == IF field \in DOMAIN doc THEN <<1>> \o doc[field] ELSE <<0>>

\* cursor.limit(n): the first n, all of them when n is 0
Limited(seq, n) == IF n = 0 \/ Len(seq) <= n THEN seq ELSE SubSeq(seq, 1, n)

\* articles_col.find(query).limit(limit).sort(field, -1): the matching
\* documents in descending order of the field, cut to the limit. The order of
\* documents with equal keys is the store's choice: every order is a result.
Find(coll, query, field, limit) ==
    LET hits == {i \in 1..Len(coll) : Matches(coll[i], query)}
        n == Cardinality(hits)
        orders == {p \in [1..n -> hits] :
                      /\ \A i, j \in 1..n : i # j => p[i] # p[j]
                      /\ \A i \in 1..(n - 1) :
                             LexLeq(SortKey(coll[p[i + 1]], field), SortKey(coll[p[i]], field))}
    IN  {Limited([i \in 1..n |-> coll[p[i]]], limit) : p \in orders}

\* {"$regex": pattern, "$options": "i"}
RegexCond(pattern) == ("$regex" :> pattern) @@ ("$options" :> <<105>>)

\* the value used as a pattern as it is, its special characters left bare
UnescapedPattern(x) == x

\* the pattern that lets the value stand anywhere in the field
SubstringPattern(x) == re_escape(x)

\* the escaped value without the anchors
UnanchoredPattern(x) == re_escape(x)

\* f"^{re.escape(x)}$"
AnchoredPattern(x) == <<94>> \o re_escape(x) \o <<36>>

\* the filter get_articles_by_category builds
CategoryQuery(category, subcategory) ==
    LET q1 == IF Truthy(category)
              THEN "$or" :> << "subcategory" :> RegexCond(AnchoredPattern(category)),
                               "category" :> RegexCond(AnchoredPattern(category)) >>
              ELSE <<>>
        subcat_condition == "subcategory" :> RegexCond(AnchoredPattern(subcategory))
    IN  IF Truthy(subcategory)
        THEN IF "$or" \in DOMAIN q1
             THEN "$and" :> <<q1, subcat_condition>>
             ELSE subcat_condition
        ELSE q1

\* the results a call may return: [] when the store fails
get_articles_by_category(coll, category, subcategory, limit, storeUp) ==
    IF storeUp
    THEN Find(coll, CategoryQuery(category, subcategory), "scraped_at", limit)
    ELSE {<<>>}

\* the filter search_articles builds
SearchQuery(title_substring, author, date_start, date_end, category, subcategory) ==
    LET q0 == <<>>
        q1 == IF Truthy(title_substring)
              THEN Merged(q0, "title" :> RegexCond(SubstringPattern(title_substring)))
              ELSE q0
        q2 == IF Truthy(author)
              THEN Merged(q1, "author" :> RegexCond(SubstringPattern(author)))
              ELSE q1
        date_query == (IF Truthy(date_start) THEN "$gte" :> date_start ELSE <<>>)
                      @@ (IF Truthy(date_end) THEN "$lte" :> date_end ELSE <<>>)
        q3 == IF Truthy(date_start) \/ Truthy(date_end)
              THEN Merged(q2, "date" :> date_query)
              ELSE q2
        q4 == IF Truthy(category)
              THEN Merged(q3, "$or" :>
                       ((IF "$or" \in DOMAIN q3 THEN q3["$or"] ELSE <<>>)
                        \o << "subcategory" :> RegexCond(SubstringPattern(category)) >>))
              ELSE q3
        subcat_condition == "subcategory" :> RegexCond(SubstringPattern(subcategory))
    IN  IF Truthy(subcategory)
        THEN IF "$or" \in DOMAIN q4
             THEN "$and" :> <<q4, subcat_condition>>
             ELSE Merged(q4, subcat_condition)
        ELSE q4

search_articles(coll, title_substring, author, date_start, date_end, category, subcategory, limit, storeUp) ==
    IF storeUp
    THEN Find(coll, SearchQuery(title_substring, author, date_start, date_end, category,
                                subcategory), "date", limit)
    ELSE {<<>>}

---------------------------------------------------------------------------
(* A collection that is filled and queried *)

\* "IA", "ia", "I.", "BO", and the two dates of a range
S_IA == <<73, 65>>
S_ia == <<105, 97>>
S_Idot == <<73, 46>>
S_BO == <<66, 79>>
S_20250101 == <<50, 48, 50, 53, 48, 49, 48, 49>>
S_20250831 == <<50, 48, 50, 53, 48, 56, 51, 49>>

\* The articles saved: what scrape_article makes (of the fields the queries
\* read), one of them with a category field as well.
\*   title "IA",   author "Bo", date "20250815", subcategory "IA"
\*   title "News", author "Al", date "20250901", subcategory "DIA", category "ia"
\*   title "i.",   author "bo", date "20250831", subcategory "ia\n"
\*   title "IA",   author "Al", date "",         subcategory "Tech"
ArticleProfiles == {
    [title |-> S_IA, author |-> <<66, 111>>, date |-> <<50, 48, 50, 53, 48, 56, 49, 53>>,
     subcategory |-> S_IA, scraped_at |-> <<49>>],
    [title |-> <<78, 101, 119, 115>>, author |-> <<65, 108>>,
     date |-> <<50, 48, 50, 53, 48, 57, 48, 49>>,
     subcategory |-> <<68, 73, 65>>, category |-> S_ia, scraped_at |-> <<50>>],
    [title |-> <<105, 46>>, author |-> <<98, 111>>, date |-> S_20250831,
     subcategory |-> <<105, 97, 10>>, scraped_at |-> <<50>>],
    [title |-> S_IA, author |-> <<65, 108>>, date |-> <<>>,
     subcategory |-> <<84, 101, 99, 104>>, scraped_at |-> <<51>>]
}

QueryUrls == {<<117>>, <<118>>}

QueryDocs == {Merged(p, "url" :> u) : p \in ArticleProfiles, u \in QueryUrls}

\* the default of the limit parameter
DefaultLimit == 100

Limits == {0, 1, DefaultLimit}

InitQuery ==
    /\ StoreIdle
    /\ pc = "serve"
    /\ arg = NoneDict
    /\ ret = [op |-> "none"]

\* a scraped article is saved
Populate ==
    \E d \in QueryDocs, storeUp \in BOOLEAN :
        /\ SaveArticle(d, storeUp)
        /\ UNCHANGED hist

ByCategory ==
    /\ pc = "serve"
    /\ calls < MaxStoreCalls
    /\ \E category \in {None, <<>>, S_IA}, subcategory \in {None, <<>>, S_ia},
          limit \in Limits, storeUp \in BOOLEAN :
           \E res \in get_articles_by_category(store, category, subcategory, limit, storeUp) :
               /\ arg' = [category |-> category, subcategory |-> subcategory, limit |-> limit]
               /\ ret' = [op |-> "by_category", out |-> res, failed |-> ~storeUp]
    /\ calls' = calls + 1
    /\ pc' = "answered"
    /\ UNCHANGED <<store, hist>>

Search ==
    /\ pc = "serve"
    /\ calls < MaxStoreCalls
    /\ \E title_substring \in {None, S_Idot, S_ia}, author \in {None, S_BO},
          date_start \in {None, S_20250101}, date_end \in {None, S_20250831},
          category \in {None, S_ia}, subcategory \in {None, S_IA},
          limit \in Limits, storeUp \in BOOLEAN :
           \E res \in search_articles(store, title_substring, author, date_start, date_end,
                                      category, subcategory, limit, storeUp) :
               /\ arg' = [title_substring |-> title_substring, author |-> author,
                          date_start |-> date_start, date_end |-> date_end,
                          category |-> category, subcategory |-> subcategory, limit |-> limit]
               /\ ret' = [op |-> "search", out |-> res, failed |-> ~storeUp]
    /\ calls' = calls + 1
    /\ pc' = "answered"
    /\ UNCHANGED <<store, hist>>

NextQuery == Populate \/ ByCategory \/ Search \/ Resume

SpecQuery == InitQuery /\ [][NextQuery]_vars

\* the field is there and equals the value, letters compared without case
FieldEqualsCI(doc, field, x) == field \in DOMAIN doc /\ Lower(doc[field]) = Lower(x)

\* the same, or the field is the value followed by one line feed
FieldEqualsCIOrLf(doc, field, x) ==
    FieldEqualsCI(doc, field, x) \/ FieldEqualsCI(doc, field, x \o <<10>>)

\* the field is there and holds the value somewhere, without case
FieldContainsCI(doc, field, x) ==
    /\ field \in DOMAIN doc
    /\ \E i \in 1..(Len(doc[field]) + 1) :
           /\ i + Len(x) - 1 <= Len(doc[field])
           /\ Lower(SubSeq(doc[field], i, i + Len(x) - 1)) = Lower(x)

\* the call returned all it found: the store answered, the limit cut nothing
Uncut == ~ret.failed /\ (arg.limit = 0 \/ Len(ret.out) < arg.limit)

\* without a category and a subcategory every record is a result
NoParameterNoFilter ==
    ~Truthy(arg.category) /\ ~Truthy(arg.subcategory) /\ Uncut
        => Len(ret.out) = Len(store)

\* C3 as stated: by_category returns only records whose subcategory equals,
\* whole and without case, every parameter given; empty parameters filter
\* nothing.
C3_OnlySubcategoryEquals ==
    ret.op = "by_category" =>
        /\ \A i \in 1..Len(ret.out) :
               /\ Truthy(arg.category) => FieldEqualsCI(ret.out[i], "subcategory", arg.category)
               /\ Truthy(arg.subcategory) =>
                      FieldEqualsCI(ret.out[i], "subcategory", arg.subcategory)
        /\ NoParameterNoFilter

\* C3, amended: a result's subcategory equals the subcategory parameter,
\* and its subcategory or its category field equals the category parameter,
\* each whole and without case but for one line feed that may end the field;
\* empty parameters filter nothing.
C3_SubcategoryOrCategoryField ==
    ret.op = "by_category" =>
        /\ \A i \in 1..Len(ret.out) :
               /\ Truthy(arg.category) =>
                      \/ FieldEqualsCIOrLf(ret.out[i], "subcategory", arg.category)
                      \/ FieldEqualsCIOrLf(ret.out[i], "category", arg.category)
               /\ Truthy(arg.subcategory) =>
                      FieldEqualsCIOrLf(ret.out[i], "subcategory", arg.subcategory)
        /\ NoParameterNoFilter

\* by_category with a subcategory returned a record while the collection
\* held one whose subcategory only contains the parameter
C3_Witness ==
    /\ ret.op = "by_category" /\ Truthy(arg.subcategory) /\ ~Truthy(arg.category)
    /\ Len(ret.out) = 1 /\ Len(store) = 2
    /\ \E i \in 1..Len(store) :
           /\ FieldContainsCI(store[i], "subcategory", arg.subcategory)
           /\ ~FieldEqualsCIOrLf(store[i], "subcategory", arg.subcategory)

\* the record meets every filter the call was given
MeetsAllFilters(doc) ==
    /\ Truthy(arg.title_substring) => FieldContainsCI(doc, "title", arg.title_substring)
    /\ Truthy(arg.author) => FieldContainsCI(doc, "author", arg.author)
    /\ Truthy(arg.category) => FieldContainsCI(doc, "subcategory", arg.category)
    /\ Truthy(arg.subcategory) => FieldContainsCI(doc, "subcategory", arg.subcategory)
    /\ Truthy(arg.date_start) => "date" \in DOMAIN doc /\ LexLeq(arg.date_start, doc["date"])
    /\ Truthy(arg.date_end) => "date" \in DOMAIN doc /\ LexLeq(doc["date"], arg.date_end)

\* C4: search returns a record only if it meets all the filters given at
\* once, the date bounds inclusive; and a record that meets them all is
\* returned when the store answers and the limit cuts nothing.
C4_AllFiltersAnded ==
    ret.op = "search" =>
        /\ \A i \in 1..Len(ret.out) : MeetsAllFilters(ret.out[i])
        /\ Uncut => \A i \in 1..Len(store) :
                        MeetsAllFilters(store[i]) => \E j \in 1..Len(ret.out) : ret.out[j] = store[i]

\* a search between 20250101 and 20250831 with a title filter returned the
\* record dated 20250831 and not the one dated 20250901
C4_Witness ==
    /\ ret.op = "search"
    /\ arg.date_start = S_20250101 /\ arg.date_end = S_20250831 /\ Truthy(arg.title_substring)
    /\ Len(ret.out) = 1 /\ ret.out[1]["date"] = S_20250831
    /\ \E i \in 1..Len(store) : store[i]["date"] = <<50, 48, 50, 53, 48, 57, 48, 49>>

---------------------------------------------------------------------------
(* scrape_article *)

\* The page as BeautifulSoup hands it over: the first h1, the og:title meta,
\* the title element, the og:image meta, the first time element (each NoTag
\* when the page has none), and the elements below the article element in
\* document order. A tag is [name, attrs, text], text being its get_text();
\* an element below the article has a parent as well: the position of the
\* div it stands in, 0 for the article itself.
\*
\* The pages of the model have an article element, their images carry no
\* class, width, height, alt or title and stand in no figure, and their texts
\* hold no digit and none of the words the sommaire, subcategory, summary,
\* publication-date and author searches look for: on these pages lines
\* 131-135, 162-172, 181-249, 261-273, 280-298 and 339-360 find nothing.

\* "T" of the h1, "O" of og:title, "N" of the title element
S_T == <<84>>
S_O == <<79>>
S_N == <<78>>

\* "lorem ipsum", a paragraph long enough to be kept, and "ad", one that is not
S_lorem == <<108, 111, 114, 101, 109, 32, 105, 112, 115, 117, 109>>
S_short == <<97, 100>>

\* class values: "post-body", "Content", "sidebar"
S_post_body == <<112, 111, 115, 116, 45, 98, 111, 100, 121>>
S_Content == <<67, 111, 110, 116, 101, 110, 116>>
S_sidebar == <<115, 105, 100, 101, 98, 97, 114>>

\* the alternatives of the class pattern of the text's content area (line 304)
TextAreaClasses == {<<101, 110, 116, 114, 121, 45, 99, 111, 110, 116, 101, 110, 116>>, <<112, 111, 115, 116, 45, 99, 111, 110, 116, 101, 110, 116>>, <<97, 114, 116, 105, 99, 108, 101, 45, 99, 111, 110, 116, 101, 110, 116>>, <<99, 111, 110, 116, 101, 110, 116>>, <<112, 111, 115, 116, 45, 98, 111, 100, 121>>}

\* the alternatives of the class pattern of the images' content area (line 330)
ImageAreaClasses == {<<101, 110, 116, 114, 121, 45, 99, 111, 110, 116, 101, 110, 116>>, <<112, 111, 115, 116, 45, 99, 111, 110, 116, 101, 110, 116>>, <<97, 114, 116, 105, 99, 108, 101, 45, 99, 111, 110, 116, 101, 110, 116>>, <<99, 111, 110, 116, 101, 110, 116>>}

\* the alternatives of the class pattern of the ancestors whose paragraphs
\* are skipped (line 312): nav, sidebar, ad, meta, social
SkippedClasses == {<<110, 97, 118>>, <<115, 105, 100, 101, 98, 97, 114>>, <<97, 100>>, <<109, 101, 116, 97>>, <<115, 111, 99, 105, 97, 108>>}

\* class_=re.compile(alternatives, re.I): the tag has a class and one of the
\* alternatives is found in it, letters compared without case
ClassMatches(tag, alternatives) ==
    /\ Get(tag, "class") # None
    /\ \E a \in alternatives : RegexSearch(a, Get(tag, "class"))

RECURSIVE IsAncestor(_, _, _)
\* element a (0: the article) is an ancestor of element k
IsAncestor(nodes, a, k) ==
    \/ a = 0
    \/ nodes[k].parent = a
    \/ nodes[k].parent > a /\ IsAncestor(nodes, a, nodes[k].parent)

\* area.find_all(name): the positions of the elements of that name below
\* the area, in document order
FindAll(nodes, area, name) ==
    SelectSeq([i \in 1..Len(nodes) |-> i],
              LAMBDA k : nodes[k].name = name /\ IsAncestor(nodes, area, k))

\* article.find(['div', 'section'], class_=...) or article: the first
\* element below the article whose class matches, the article (0) when none
\* does. A Tag is always truthy.
ContentArea(nodes, alternatives) ==
    LET hits == {k \in 1..Len(nodes) : nodes[k].name = "div" /\ ClassMatches(nodes[k], alternatives)}
    IN  IF hits = {} THEN 0 ELSE CHOOSE k \in hits : \A j \in hits : k <= j

\* title or "", and the like
OrEmpty(x) == IF Truthy(x) THEN x ELSE <<>>

\* lines 137-150. meta_title is the og:title meta when the page has one,
\* whatever its content, and the title element only when it has none.
ScrapeTitle(doc) ==
    LET title_tag == doc.h1
        title == IF title_tag # NoTag THEN clean_text(title_tag.text) ELSE None
        meta_title == IF doc.og_title # NoTag THEN doc.og_title ELSE doc.title_tag
        content == IF Truthy(Get(meta_title, "content"))
                   THEN Get(meta_title, "content")
                   ELSE meta_title.text
    IN  IF Truthy(title) THEN title
        ELSE IF meta_title # NoTag /\ content # <<>> THEN clean_text(content)
        ELSE title

\* lines 152-178: og:image, else the first image of the article. A string,
\* None, or IndexError when _get_img_url raises.
ScrapeThumbnail(doc, base_url) ==
    LET meta_og == doc.og_image
        imgs == FindAll(doc.nodes, 0, "img")
    IN  IF meta_og # NoTag /\ Truthy(Get(meta_og, "content"))
        THEN urljoin(base_url, Get(meta_og, "content"))
        ELSE IF imgs # <<>> THEN get_img_url(doc.nodes[Head(imgs)], base_url)
        ELSE None

\* lines 256-258: the text that is parsed as the date
ScrapeDateText(doc) ==
    LET time_tag == doc.time_tag
    IN  IF time_tag = NoTag THEN None
        ELSE IF Truthy(Get(time_tag, "datetime")) THEN Get(time_tag, "datetime")
        ELSE clean_text(time_tag.text)

\* lines 276-277
ScrapeDate(doc, du, padYear) ==
    IF Truthy(ScrapeDateText(doc))
    THEN parse_french_date(ScrapeDateText(doc), du, padYear).value
    ELSE None

\* elem.find_parent(class_=...): an ancestor of the element has a class
\* that matches
InSkippedParent(nodes, k) ==
    \E a \in 1..Len(nodes) :
        IsAncestor(nodes, a, k) /\ ClassMatches(nodes[a], SkippedClasses)

RECURSIVE Join(_, _)
\* sep.join(parts)
Join(parts, sep) ==
    IF parts = <<>> THEN <<>>
    ELSE IF Len(parts) = 1 THEN Head(parts)
    ELSE Head(parts) \o sep \o Join(Tail(parts), sep)

\* lines 308-324: the texts of the paragraphs of the area that stand under no
\* skipped parent and are longer than 10, joined by "\n\n"
ScrapeContent(nodes, content_area) ==
    LET kept == SelectSeq(FindAll(nodes, content_area, "p"),
                          LAMBDA k : /\ ~InSkippedParent(nodes, k)
                                     /\ Len(clean_text(nodes[k].text)) > 10)
        paragraphs == [i \in 1..Len(kept) |-> clean_text(nodes[kept[i]].text)]
    IN  Strip(Join(paragraphs, <<10, 10>>))

RECURSIVE ImagesOf(_, _, _)
\* lines 334-367 over the images of the area: one without a URL is left out,
\* as is one whose URL is the thumbnail's; raised when _get_img_url raises
\* IndexError for one of them
ImagesOf(imgs, thumbnail, base_url) ==
    IF imgs = <<>> THEN [raised |-> FALSE, images |-> <<>>]
    ELSE LET img_url == get_img_url(Head(imgs), base_url)
             rest == ImagesOf(Tail(imgs), thumbnail, base_url)
         IN  IF img_url = IndexError \/ rest.raised THEN [raised |-> TRUE, images |-> <<>>]
             ELSE IF ~Truthy(img_url) THEN rest
             ELSE IF img_url # thumbnail
                  THEN [raised |-> FALSE,
                        images |-> <<[url |-> img_url, caption |-> <<>>]>> \o rest.images]
             ELSE rest

\* scrape_article(url) on a page: status "unfetched" with no result when the
\* request fails, "IndexError" when the call raises, else "ok" with the
\* result dict (scraped_at, the clock's, left out). text_area and image_area
\* are the two values of the local content_area.
scrape_article(doc, fetched, du, padYear) ==
    LET base_url == BaseUrl
        thumbnail == ScrapeThumbnail(doc, base_url)
        text_area == ContentArea(doc.nodes, TextAreaClasses)
        image_area == ContentArea(doc.nodes, ImageAreaClasses)
        imgs == FindAll(doc.nodes, image_area, "img")
        images == ImagesOf([i \in 1..Len(imgs) |-> doc.nodes[imgs[i]]], thumbnail, base_url)
    IN  IF ~fetched THEN [op |-> "scrape", status |-> "unfetched"]
        ELSE IF thumbnail = IndexError \/ images.raised
             THEN [op |-> "scrape", status |-> "IndexError"]
        ELSE [op |-> "scrape", status |-> "ok",
              text_area |-> text_area, image_area |-> image_area,
              out |-> [url |-> base_url,
                       title |-> OrEmpty(ScrapeTitle(doc)),
                       thumbnail |-> OrEmpty(thumbnail),
                       sommaire |-> <<>>,
                       subcategory |-> <<>>,
                       summary |-> <<>>,
                       date |-> OrEmpty(ScrapeDate(doc, du, padYear)),
                       author |-> <<>>,
                       content |-> ScrapeContent(doc.nodes, text_area),
                       images |-> images.images]]

\* how many elements stand below the article
MaxNodes == 3

H1Tags == {NoTag} \cup {[name |-> "h1", attrs |-> <<>>, text |-> t] : t \in {<<>>, S_T}}

\* the og:title meta: without content, with content "", " " or "O"
OgTitleTags ==
    {NoTag, [name |-> "meta", attrs |-> <<>>, text |-> <<>>]}
    \cup {[name |-> "meta", attrs |-> "content" :> c, text |-> <<>>] : c \in {<<>>, <<32>>, S_O}}

TitleTags == {NoTag, [name |-> "title", attrs |-> <<>>, text |-> S_N]}

\* the og:image meta, of content "a"
OgImageTags == {NoTag, [name |-> "meta", attrs |-> "content" :> <<97>>, text |-> <<>>]}

\* <time datetime="2025-08-28">
TimeTags == {NoTag, [name |-> "time", attrs |-> "datetime" :> <<50, 48, 50, 53, 45, 48, 56, 45, 50, 56>>, text |-> <<>>]}

\* the elements that may stand below the article: a div of some class, a
\* paragraph long or short, an image of src "a", "b" or ","
ArticleNodes ==
    UNION {{[name |-> "div", attrs |-> "class" :> c, text |-> <<>>, parent |-> p] :
                c \in {S_post_body, S_Content, S_sidebar}}
           \cup {[name |-> "p", attrs |-> <<>>, text |-> t, parent |-> p] : t \in {S_lorem, S_short}}
           \cup {[name |-> "img", attrs |-> "src" :> s, text |-> <<>>, parent |-> p] :
                     s \in {<<97>>, <<98>>, <<44>>}} :
           p \in 0..(MaxNodes - 1)}

\* the sequence is a tree in document order: an element's parent is an
\* earlier div, and every element between the two stands in that div too
WellFormed(nodes) ==
    \A i \in 1..Len(nodes) :
        LET j == nodes[i].parent
        IN  /\ j < i
            /\ j > 0 => /\ nodes[j].name = "div"
                        /\ \A k \in (j + 1)..(i - 1) : IsAncestor(nodes, j, k)

\* the trees of at most n elements
ArticleTrees(n) ==
    UNION {{t \in [1..m -> ArticleNodes] : WellFormed(t)} : m \in 0..n}

\* how many elements stand below the article of a page whose head varies
MaxHeadNodes == 1

\* the pages scraped: every head over the small articles, and every article
\* under a head with an h1, a title element and maybe an og:image
Pages ==
    [h1 : H1Tags, og_title : OgTitleTags, title_tag : TitleTags,
     og_image : OgImageTags, time_tag : TimeTags, nodes : ArticleTrees(MaxHeadNodes)]
    \cup
    [h1 : H1Tags \ {NoTag}, og_title : {NoTag}, title_tag : TitleTags \ {NoTag},
     og_image : OgImageTags, time_tag : {NoTag}, nodes : ArticleTrees(MaxNodes)]

InitScrape == StoreIdle /\ pc = "call" /\ arg \in Pages /\ ret = [op |-> "none"]

CallScrape ==
    /\ pc = "call"
    /\ \E fetched \in BOOLEAN, padYear \in BOOLEAN,
          du \in DateutilOutcomes(Strip(OrEmpty(ScrapeDateText(arg)))) :
           ret' = scrape_article(arg, fetched, du, padYear)
    /\ pc' = "done"
    /\ UNCHANGED <<arg, storeVars>>

SpecScrape == InitScrape /\ [][CallScrape]_vars

\* the first non-empty of the values, "" when there is none
FirstNonEmpty(values) ==
    LET hits == {i \in 1..Len(values) : values[i] # <<>>}
    IN  IF hits = {} THEN <<>> ELSE values[CHOOSE i \in hits : \A j \in hits : i <= j]

\* the text of a tag or the content of a meta, normalized; "" without one
Normalized(x) == IF x = None THEN <<>> ELSE clean_text(x)

\* C9: the title of the record is the first non-empty normalized value of
\* the h1's text, the og:title meta's content and the title element's text,
\* so a page with a non-empty title element never gets an empty title.
C9_TitleIsFirstOfCascade ==
    ret.op = "scrape" /\ ret.status = "ok" =>
        ret.out.title =
            FirstNonEmpty(<<IF arg.h1 = NoTag THEN <<>> ELSE Normalized(arg.h1.text),
                            IF arg.og_title = NoTag THEN <<>>
                            ELSE Normalized(Get(arg.og_title, "content")),
                            IF arg.title_tag = NoTag THEN <<>>
                            ELSE Normalized(arg.title_tag.text)>>)

\* C10: the images are taken from the content area the text is taken from:
\* the two areas are one element, and every image of the record is the URL of
\* an image that stands in the text's area.
C10_ImagesFromTextArea ==
    ret.op = "scrape" /\ ret.status = "ok" =>
        /\ ret.image_area = ret.text_area
        /\ \A i \in 1..Len(ret.out.images) :
               \E k \in Range(FindAll(arg.nodes, ret.text_area, "img")) :
                   get_img_url(arg.nodes[k], BaseUrl) = ret.out.images[i].url

=============================================================================
